---- MODULE Spec2Model ----
(***************************************************************************)
(* Model of sizif's checkpoint monitors (src/sizif/storage.py):            *)
(*   FileCheckpointsMonitor     - local history, status file, rotation     *)
(*   FTPFileCheckpointsMonitor  - the same, mirrored to an FTP folder by   *)
(*                                a pool of background worker threads      *)
(* and of the transfer tasks they use (src/sizif/ftptasks.py):             *)
(*   download_task, upload_task - one file over FTP, with retries          *)
(*                                                                         *)
(* Paths are numbered 1..NumPaths; NoPath (0) is the empty string ''.      *)
(* A dict is a function from a set of keys to values.  The status file is  *)
(* a record: whether it exists, whether its text parses, and the text as   *)
(* the sequence of key/value pairs json.dump writes.                       *)
(***************************************************************************)
EXTENDS Integers, Sequences, FiniteSets, TLC

\* ----------------------------------------------------------------- bounds
NumPaths == 2
MaxWrites == 3
MaxRotate == 2
MaxUploads == 1
NumWorkers == 2
MaxBytes == 3

\* ------------------------------------------------------ program constants
DefaultRotate == 5
NoPath == 0
FTP_RETRY_COUNT == 10

\* errors of a transfer task that are not transport errors (those carry the
\* number of the attempt that met them)
FileNotFound == -1
ZeroDivision == -2

Paths == 1..NumPaths

VARIABLES
    kind,                \* "local" | "ftp" | "task": the class of the monitor
    phase,               \* "new" (no instance yet) | "ready" (constructed)
    rotate_given,        \* whether the constructor got a rotate_number argument
    rotate_number,       \* self.rotate_number
    checkpoints,         \* self.checkpoints (the history)
    current_checkpoint,  \* self.current_checkpoint
    current_params,      \* self.current_params
    statefile,           \* the local status file
    disk,                \* the readable checkpoint files of the local folder
    \* ---- FTPFileCheckpointsMonitor
    die_on_ftperrors,    \* self.die_on_ftperrors
    thread_dead,         \* self.thread_dead
    thread_result,       \* self.thread_result: NoError (None) or the error of a task
    queue,               \* the tasks submitted to self.executor and not yet taken
    workers,             \* the threads of self.executor
    remote,              \* the FTP server: the folder, its status file, its blobs
    fg,                  \* the foreground thread inside on_checkpoint_written
    ntasks,              \* upload tasks submitted so far (their numbers are 1..ntasks)
    \* ---- bookkeeping of the calls made (not program state)
    lastOp,              \* the last completed public operation
    lastErr,             \* what it raised ("none" if it returned)
    lastRet,             \* what it returned, for rotate_checkpoints
    lastCall,            \* its arguments, for a successful on_checkpoint_written
    reloadOf,            \* for a construction: the call whose status it found
    onlyWrites,          \* the instance has seen only on_checkpoint_written and
                         \* rotate_checkpoints() without argument
    nwrites,             \* local monitor, while onlyWrites: its successful
                         \* on_checkpoint_written calls; remote-mirrored monitor: the
                         \* calls that registered their checkpoint
    loaded,              \* while onlyWrites: length of the history after construction
    track,               \* "clean": started empty, onlyWrites, the written paths are
                         \* distinct and no os.remove failed; "faulty": the same, but
                         \* an os.remove failed; "off" otherwise
    written,             \* the written paths in order, while track # "off"
    before,              \* for an on_checkpoint_written that raised: the monitor and
                         \* its status file as they were when it was called
    lastMissing,         \* for an on_checkpoint_written: its file was not readable
    surfaced,            \* per upload task: how many on_checkpoint_written calls have
                         \* raised or logged its error
    boot,                \* until the next call: what the last construction of a
                         \* remote-mirrored monitor found and how its transfers went
    \* ---- one download_task or upload_task call on its own
    xfer

cfgVars == <<kind, phase, rotate_given, rotate_number, die_on_ftperrors>>
monVars == <<checkpoints, current_checkpoint, current_params, statefile, disk>>
ftpVars == <<thread_dead, thread_result, queue, workers, remote, fg, ntasks>>
callVars == <<lastOp, lastErr, lastRet, lastCall, reloadOf, before, lastMissing>>
runVars == <<onlyWrites, nwrites, loaded, track, written>>

ghostVars == <<surfaced, boot>>

vars == <<cfgVars, monVars, ftpVars, callVars, runVars, ghostVars, xfer>>

\* ------------------------------------------------------------------ dicts
EmptyDict == [k \in {} |-> 0]

SetKey(d, k, v) == [x \in (DOMAIN d) \cup {k} |-> IF x = k THEN v ELSE d[x]]

KeyOrder == <<"checkpoint", "epoch">>

\* json.dump: the dict as text, one key/value pair after the other
JsonDump(d) ==
    LET keys == SelectSeq(KeyOrder, LAMBDA k : k \in DOMAIN d)
    IN  [i \in 1..Len(keys) |-> <<keys[i], d[keys[i]]>>]

\* json.load of a well-formed text
JsonLoad(pairs) ==
    [k \in {pairs[i][1] : i \in 1..Len(pairs)} |->
        LET i == CHOOSE j \in 1..Len(pairs) : pairs[j][1] = k IN pairs[i][2]]

AbsentFile == [exists |-> FALSE, wellformed |-> FALSE, pairs |-> <<>>]
MalformedFile == [exists |-> TRUE, wellformed |-> FALSE, pairs |-> <<>>]
TextFile(d) == [exists |-> TRUE, wellformed |-> TRUE, pairs |-> JsonDump(d)]

\* a check that takes every path for a readable file
Readable_always(p, files) == TRUE

\* os.path.isfile(p) and os.access(p, os.R_OK)
Readable(p, files) == p \in files

\* ----------------------------------------------- FileCheckpointsMonitor
\* The monitor with its folder, as one record s:
\*   cps, cur, par = checkpoints, current_checkpoint, current_params
\*   sf, files     = status file, checkpoint files on disk
State == [cps |-> checkpoints, cur |-> current_checkpoint, par |-> current_params,
          sf |-> statefile, files |-> disk]

\* int(rotate_number) or -1
CoerceRotate(n) == IF n = 0 THEN -1 ELSE n

\* a save that writes current_params as they are
_save_current_status_stale(s) == [s EXCEPT !.sf = TextFile(s.par)]

\* current_params['checkpoint'] = current_checkpoint; json.dump(current_params, fp)
_save_current_status(s) ==
    LET par == SetKey(s.par, "checkpoint", s.cur)
    IN  [s EXCEPT !.par = par, !.sf = TextFile(par)]

\* a registration that keeps the params of the previous checkpoint
_add_checkpoint_keep(s, cp, params) ==
    [s EXCEPT !.cur = cp, !.cps = IF cp # NoPath THEN Append(s.cps, cp) ELSE s.cps]

_add_checkpoint(s, cp, params) ==
    [s EXCEPT !.par = params, !.cur = cp,
              !.cps = IF cp # NoPath THEN Append(s.cps, cp) ELSE s.cps]

\* a reset that also clears the folder
reset_purge(s) == _save_current_status([s EXCEPT !.cur = NoPath, !.cps = <<>>, !.files = {}])

reset(s) == _save_current_status([s EXCEPT !.cur = NoPath, !.cps = <<>>])

_load_current_status(s, reset_on_deadcheckpoint) ==
    IF ~s.sf.wellformed THEN reset(s)                       \* json.load raises
    ELSE LET data == JsonLoad(s.sf.pairs) IN
         IF "checkpoint" \notin DOMAIN data THEN reset(s)   \* KeyError
         ELSE LET s1 == _add_checkpoint(s, data["checkpoint"], data) IN
              IF reset_on_deadcheckpoint /\ ~Readable(s1.cur, s1.files)
              THEN reset(s1) ELSE s1

\* a load that never looks at the checkpoint file
_load_statefile_nocheck(s) ==
    IF ~s.sf.exists THEN reset(s) ELSE _load_current_status(s, FALSE)

_load_statefile(s) ==
    IF ~s.sf.exists THEN reset(s) ELSE _load_current_status(s, TRUE)

\* a rotation that keeps the oldest n entries instead of the newest
Newest_oldest(cps, n) == SubSeq(cps, 1, IF Len(cps) > n THEN n ELSE Len(cps))

\* checkpoints[:-n] and checkpoints[-n:] for n >= 1
Older(cps, n) == SubSeq(cps, 1, IF Len(cps) > n THEN Len(cps) - n ELSE 0)
Newest(cps, n) == SubSeq(cps, (IF Len(cps) > n THEN Len(cps) - n ELSE 0) + 1, Len(cps))

\* a loop that calls rotate_fn and leaves the files where they are
RemoveLoop_keep(to_remove, files, denied, called) ==
    [files |-> files, called |-> called \o to_remove]

\* the loop over to_remove: os.remove(i), then rotate_fn(i) when it did not raise.
\* denied: the paths whose removal the file system refuses.
\* Gives the files left and the paths rotate_fn was called with, in order.
RECURSIVE RemoveLoop(_, _, _, _)
RemoveLoop(to_remove, files, denied, called) ==
    IF to_remove = <<>> THEN [files |-> files, called |-> called]
    ELSE LET i == Head(to_remove) IN
         IF i \in files /\ i \notin denied
         THEN RemoveLoop(Tail(to_remove), files \ {i}, denied, Append(called, i))
         ELSE RemoveLoop(Tail(to_remove), files, denied, called)

\* a rotation without the "rotate_number < 1" exit: the slices of a negative count
rotate_checkpoints_noguard(s, self_rotate_number, arg, denied) ==
    LET n == IF arg # 0 THEN arg ELSE self_rotate_number
        cut == IF n >= 1 THEN (IF Len(s.cps) > n THEN Len(s.cps) - n ELSE 0)
               ELSE (IF Len(s.cps) > -n THEN -n ELSE Len(s.cps))
        to_remove == SubSeq(s.cps, 1, cut)
        kept == SubSeq(s.cps, cut + 1, Len(s.cps))
        loop == RemoveLoop(to_remove, s.files, denied, <<>>)
    IN  [s |-> [s EXCEPT !.cps = kept, !.files = loop.files],
         ret |-> (Len(kept) - Len(s.cps)) # 0,
         called |-> loop.called,
         failed |-> Len(loop.called) # Len(to_remove),
         raised |-> FALSE]

\* rotate_checkpoints(rotate_number=arg): arg 0 stands for 0 and for None.
\* Gives the new state, the return value and the paths handed to rotate_fn.
rotate_checkpoints(s, self_rotate_number, arg, denied) ==
    LET n == IF arg # 0 THEN arg ELSE self_rotate_number IN
    IF n < 1 THEN [s |-> s, ret |-> FALSE, called |-> <<>>, failed |-> FALSE,
                   raised |-> FALSE]
    ELSE LET to_remove == Older(s.cps, n)
             kept == Newest(s.cps, n)
             loop == RemoveLoop(to_remove, s.files, denied, <<>>)
         IN  [s |-> [s EXCEPT !.cps = kept, !.files = loop.files],
              ret |-> (Len(kept) - Len(s.cps)) # 0,
              called |-> loop.called,
              failed |-> Len(loop.called) # Len(to_remove),
              raised |-> FALSE]

\* the loop over to_remove with a rotate_fn of the caller.  broken: the paths for
\* which rotate_fn raises an error that is not an OSError; only OSError is caught,
\* so that error ends the loop and the call.
\* Gives the files left, the paths rotate_fn was called with, and whether the
\* error of rotate_fn went out to the caller.
RECURSIVE RemoveLoopFn(_, _, _, _, _)
RemoveLoopFn(to_remove, files, denied, broken, called) ==
    IF to_remove = <<>> THEN [files |-> files, called |-> called, raised |-> FALSE]
    ELSE LET i == Head(to_remove) IN
         IF i \in files /\ i \notin denied
         THEN IF i \in broken
              THEN [files |-> files \ {i}, called |-> Append(called, i), raised |-> TRUE]
              ELSE RemoveLoopFn(Tail(to_remove), files \ {i}, denied, broken,
                                Append(called, i))
         ELSE RemoveLoopFn(Tail(to_remove), files, denied, broken, called)

\* rotate_checkpoints(rotate_number=arg, rotate_fn=fn): the history is trimmed
\* before the loop starts, the return value is lost when fn raises
rotate_checkpoints_fn(s, self_rotate_number, arg, denied, broken) ==
    LET n == IF arg # 0 THEN arg ELSE self_rotate_number IN
    IF n < 1 THEN [s |-> s, ret |-> FALSE, called |-> <<>>, failed |-> FALSE,
                   raised |-> FALSE]
    ELSE LET to_remove == Older(s.cps, n)
             kept == Newest(s.cps, n)
             loop == RemoveLoopFn(to_remove, s.files, denied, broken, <<>>)
         IN  [s |-> [s EXCEPT !.cps = kept, !.files = loop.files],
              ret |-> ~loop.raised /\ (Len(kept) - Len(s.cps)) # 0,
              called |-> loop.called,
              failed |-> Len(loop.called) # Len(to_remove),
              raised |-> loop.raised]

\* on_checkpoint_written(file_path, params): the file check, then register,
\* persist and rotate.  raised: the call raised FileNotFoundError.
on_checkpoint_written(s, self_rotate_number, file_path, params, denied) ==
    IF ~Readable(file_path, s.files)
    THEN [s |-> s, ret |-> FALSE, called |-> <<>>, failed |-> FALSE, raised |-> TRUE]
    ELSE LET s1 == _save_current_status(_add_checkpoint(s, file_path, params))
         IN  rotate_checkpoints(s1, self_rotate_number, 0, denied)

\* ---------------------------------------------------------------- inputs
ParamsInputs == {EmptyDict, [checkpoint |-> 1, epoch |-> 2]}

RotateArgs == -1..MaxRotate

\* what a folder can hold before the first monitor of a run is constructed
StatusFiles ==
    {AbsentFile, MalformedFile, TextFile([epoch |-> 1])}
    \cup {TextFile([checkpoint |-> p]) : p \in {NoPath} \cup Paths}

\* the checkpoint files an earlier run can have left in the folder
StaleFiles == {{}, {1}}

\* --------------------------------------------------------------- helpers
NoCall == [path |-> NoPath, params |-> EmptyDict]
NoReload == [after |-> "none", call |-> NoCall, onDisk |-> FALSE]

\* errors: what a call raised, or what a background task recorded
NoError == [kind |-> "none", id |-> 0]
Raised(k) == [kind |-> k, id |-> 0]
TaskError(id) == [kind |-> "task", id |-> id]

Elems(seq) == {seq[i] : i \in 1..Len(seq)}

Snapshot(s) == [cps |-> s.cps, cur |-> s.cur, par |-> s.par, sf |-> s.sf]
NoSnapshot == [cps |-> <<>>, cur |-> NoPath, par |-> EmptyDict, sf |-> AbsentFile]

SetState(s) ==
    /\ checkpoints' = s.cps
    /\ current_checkpoint' = s.cur
    /\ current_params' = s.par
    /\ statefile' = s.sf
    /\ disk' = s.files

\* the paths a rotation to the newest n entries of cps would try to delete
ToRemove(cps, self_rotate_number, arg) ==
    LET n == IF arg # 0 THEN arg ELSE self_rotate_number
    IN  IF n < 1 THEN {} ELSE Elems(Older(cps, n))

\* the files whose os.remove raises OSError during one call: none, or one of them
Denials(candidates) == {{}} \cup {{p} : p \in candidates}

\* a write is possible while the history is short, or while rotation keeps it short
MayWrite ==
    \/ Len(checkpoints) < MaxWrites
    \/ rotate_number >= 1 /\ Len(checkpoints) <= rotate_number

\* the count of writes is kept up to the longest history the writes can build
WriteCap == IF rotate_number >= MaxWrites THEN rotate_number + 1 ELSE MaxWrites

NoRemote == [dir |-> FALSE, status |-> AbsentFile, blobs |-> {}]

\* no construction of a remote-mirrored monitor has just ended
NoBoot == [sf |-> AbsentFile, files |-> {}, rem |-> NoRemote, connected |-> FALSE,
           ok_status |-> FALSE, ok_blob |-> FALSE, hollow |-> {}]

\* no transfer task is being followed
NoXfer ==
    [pc |-> "none", task |-> "none", die |-> FALSE, dispose |-> FALSE, size |-> 0,
     old |-> <<>>, stores |-> 0,
     dst |-> <<>>, there |-> FALSE, first_access |-> TRUE, session |-> FALSE,
     attempts |-> 0, made |-> 0, err |-> 0, clean |-> FALSE,
     cmd |-> "none", rest |-> 0, ret |-> "none", reterr |-> 0]

IdleFg == [pc |-> "idle", path |-> NoPath, params |-> EmptyDict, sawDead |-> FALSE,
           snap |-> NoSnapshot]
IdleWorker == [pc |-> "idle", task |-> [op |-> "none", file |-> NoPath, id |-> 0]]

\* ------------------------------------------- FileCheckpointsMonitor steps
InitCommon ==
    /\ phase = "new"
    /\ rotate_given = FALSE
    /\ rotate_number = DefaultRotate
    /\ checkpoints = <<>>
    /\ current_checkpoint = NoPath
    /\ current_params = EmptyDict
    /\ statefile \in StatusFiles
    /\ disk \in StaleFiles
    /\ die_on_ftperrors = FALSE
    /\ thread_dead = FALSE
    /\ thread_result = NoError
    /\ queue = <<>>
    /\ workers = [w \in 1..NumWorkers |-> IdleWorker]
    /\ fg = IdleFg
    /\ ntasks = 0
    /\ lastOp = "none" /\ lastErr = NoError /\ lastRet = FALSE
    /\ lastCall = NoCall
    /\ reloadOf = NoReload
    /\ before = NoSnapshot
    /\ lastMissing = FALSE
    /\ onlyWrites = TRUE
    /\ nwrites = 0
    /\ loaded = 0
    /\ track = "off"
    /\ written = <<>>
    /\ surfaced = [i \in 1..MaxUploads |-> 0]
    /\ boot = NoBoot
    /\ xfer = NoXfer

InitLocal ==
    /\ kind = "local"
    /\ remote = NoRemote
    /\ InitCommon

\* the rotate_number argument of a constructor: given, or left to the default
CtorRotate(given, arg) ==
    /\ given \/ arg = 0
    /\ rotate_given' = given
    /\ rotate_number' = CoerceRotate(IF given THEN arg ELSE DefaultRotate)

\* FileCheckpointsMonitor(...): a new instance over the folder as it is
Construct ==
    /\ kind = "local"
    /\ \E given \in BOOLEAN, arg \in RotateArgs : CtorRotate(given, arg)
    /\ LET s0 == [State EXCEPT !.cps = <<>>, !.cur = NoPath, !.par = EmptyDict]
           s1 == _load_statefile(s0)
       IN  /\ SetState(s1)
           /\ loaded' = Len(s1.cps)
           /\ track' = IF s1.cps = <<>> THEN "clean" ELSE "off"
    /\ phase' = "ready"
    /\ lastOp' = "construct" /\ lastErr' = NoError /\ lastRet' = FALSE
    /\ reloadOf' = [after |-> IF lastErr = NoError THEN lastOp ELSE "none",
                    call |-> lastCall, onDisk |-> lastCall.path \in disk]
    /\ lastCall' = NoCall
    /\ before' = NoSnapshot /\ lastMissing' = FALSE
    /\ nwrites' = 0
    /\ onlyWrites' = TRUE
    /\ written' = <<>>
    /\ UNCHANGED <<kind, die_on_ftperrors, ftpVars, ghostVars, xfer>>

\* bookkeeping of an on_checkpoint_written(file_path, params) that returned;
\* failed: an os.remove of its rotation failed
Wrote(file_path, params, failed) ==
    /\ lastOp' = "write" /\ lastErr' = NoError /\ lastRet' = FALSE
    /\ lastCall' = [path |-> file_path, params |-> params]
    /\ reloadOf' = NoReload
    /\ before' = NoSnapshot
    /\ nwrites' = IF onlyWrites /\ nwrites < WriteCap THEN nwrites + 1 ELSE nwrites
    /\ IF track = "off" \/ file_path \in Elems(written)
       THEN track' = "off" /\ written' = <<>>
       ELSE /\ track' = IF failed THEN "faulty" ELSE track
            /\ written' = Append(written, file_path)
    /\ UNCHANGED <<loaded, onlyWrites>>

\* bookkeeping of an on_checkpoint_written that raised err; snap: the monitor and
\* its status file at the call
WriteRaised(err, snap) ==
    /\ lastOp' = "write" /\ lastErr' = err /\ lastRet' = FALSE
    /\ lastCall' = NoCall
    /\ reloadOf' = NoReload
    /\ before' = snap
    /\ UNCHANGED runVars

\* on_checkpoint_written(file_path, params) of the local monitor.  saved: the
\* training loop has written the snapshot to file_path just before the call.
OnCheckpointWritten ==
    /\ kind = "local" /\ phase = "ready"
    /\ \E file_path \in Paths, params \in ParamsInputs, saved \in BOOLEAN :
         LET s == [State EXCEPT !.files = IF saved THEN @ \cup {file_path} ELSE @] IN
         /\ saved => file_path \notin disk
         /\ file_path \in s.files => MayWrite
         /\ \E denied \in Denials(ToRemove(Append(checkpoints, file_path),
                                          rotate_number, 0)) :
              LET r == on_checkpoint_written(s, rotate_number, file_path, params,
                                             denied)
              IN  /\ file_path \notin s.files => denied = {}
                  /\ SetState(r.s)
                  /\ lastMissing' = (file_path \notin s.files)
                  /\ IF r.raised
                     THEN WriteRaised(Raised("FileNotFoundError"), Snapshot(State))
                     ELSE Wrote(file_path, params, r.failed)
    /\ UNCHANGED <<cfgVars, ftpVars, ghostVars, xfer>>

\* bookkeeping of a rotate_checkpoints(rotate_number=arg) that returned ret
Rotated(arg, ret, failed) ==
    /\ lastOp' = IF arg = 0 THEN "rotate" ELSE "rotateN"
    /\ lastRet' = ret
    /\ lastErr' = NoError
    /\ lastCall' = NoCall
    /\ reloadOf' = NoReload
    /\ before' = NoSnapshot /\ lastMissing' = FALSE
    /\ onlyWrites' = (onlyWrites /\ arg = 0)
    /\ nwrites' = IF arg = 0 THEN nwrites ELSE 0
    /\ loaded' = IF arg = 0 THEN loaded ELSE 0
    /\ IF arg # 0 \/ track = "off"
       THEN track' = "off" /\ written' = <<>>
       ELSE /\ track' = IF failed THEN "faulty" ELSE track
            /\ UNCHANGED written

\* rotate_checkpoints(rotate_number=arg) of the local monitor
RotateCheckpoints ==
    /\ kind = "local" /\ phase = "ready"
    /\ \E arg \in RotateArgs :
         \E denied \in Denials(ToRemove(checkpoints, rotate_number, arg)) :
           LET r == rotate_checkpoints(State, rotate_number, arg, denied) IN
           /\ SetState(r.s)
           /\ Rotated(arg, r.ret, r.failed)
    /\ UNCHANGED <<cfgVars, ftpVars, ghostVars, xfer>>

\* rotate_checkpoints(rotate_number=arg, rotate_fn=fn) of the local monitor, fn
\* being a function of the caller that raises for one of the evicted files (with
\* an fn that does not raise the monitor does what RotateCheckpoints does)
RotateWithCallback ==
    /\ kind = "local" /\ phase = "ready"
    /\ \E arg \in 1..MaxRotate :
         \E broken \in ToRemove(checkpoints, rotate_number, arg) :
           LET r == rotate_checkpoints_fn(State, rotate_number, arg, {}, {broken}) IN
           /\ SetState(r.s)
           /\ IF r.raised
              THEN /\ lastOp' = "rotateN" /\ lastRet' = FALSE
                   /\ lastErr' = Raised("rotate_fn")
                   /\ lastCall' = NoCall /\ before' = NoSnapshot
                   /\ reloadOf' = NoReload /\ lastMissing' = FALSE
                   /\ onlyWrites' = FALSE /\ nwrites' = 0 /\ loaded' = 0
                   /\ track' = "off" /\ written' = <<>>
              ELSE Rotated(arg, r.ret, r.failed)
    /\ UNCHANGED <<cfgVars, ftpVars, ghostVars, xfer>>

\* bookkeeping of a reset()
WasReset ==
    /\ lastOp' = IF lastOp \in {"reset", "reset2"} THEN "reset2" ELSE "reset"
    /\ lastErr' = NoError /\ lastRet' = FALSE
    /\ lastCall' = NoCall
    /\ reloadOf' = NoReload
    /\ before' = NoSnapshot /\ lastMissing' = FALSE
    /\ onlyWrites' = FALSE /\ nwrites' = 0 /\ loaded' = 0
    /\ track' = "off" /\ written' = <<>>

\* reset() of the local monitor
Reset ==
    /\ kind = "local" /\ phase = "ready"
    /\ SetState(reset(State))
    /\ WasReset
    /\ UNCHANGED <<cfgVars, ftpVars, ghostVars, xfer>>

NextLocal ==
    \/ Construct \/ OnCheckpointWritten \/ RotateCheckpoints \/ RotateWithCallback
    \/ Reset

SpecLocal == InitLocal /\ [][NextLocal]_vars
\* ---------------------------------------- FTPFileCheckpointsMonitor steps
\* what the local folder and the FTP server can hold before a remote-mirrored
\* monitor is constructed: nothing at all; an empty remote folder; a remote folder
\* with a status file and its blob, the local folder empty; the same without the
\* blob; a local folder with a status file and its checkpoint, the remote folder
\* empty; the same with the status file and the blob on the server as well
RemoteOf(p) == [dir |-> TRUE, status |-> TextFile([checkpoint |-> p, epoch |-> 1]),
                blobs |-> {p}]
FtpFolders ==
    {[sf |-> AbsentFile, files |-> {}, rem |-> NoRemote],
     [sf |-> AbsentFile, files |-> {}, rem |-> [NoRemote EXCEPT !.dir = TRUE]],
     [sf |-> AbsentFile, files |-> {}, rem |-> RemoteOf(1)],
     [sf |-> AbsentFile, files |-> {}, rem |-> [RemoteOf(1) EXCEPT !.blobs = {}]],
     [sf |-> TextFile([checkpoint |-> 1]), files |-> {1},
      rem |-> [NoRemote EXCEPT !.dir = TRUE]],
     [sf |-> TextFile([checkpoint |-> 1]), files |-> {1}, rem |-> RemoteOf(1)]}

\* the inputs of the remote-mirrored monitor's calls
FtpRotateArgs == {-1, 1}
FtpParams == {[epoch |-> 1]}

InitFtp ==
    /\ kind = "ftp"
    /\ InitCommon
    /\ \E f \in FtpFolders : statefile = f.sf /\ disk = f.files /\ remote = f.rem

\* download_task(state_filename, state_filepath, ftp=ftp): the local file is opened
\* 'w+b' and holds the remote text when the transfer went through
DownloadStatus(s, rem, ok) ==
    [s EXCEPT !.sf = IF ok THEN rem.status ELSE MalformedFile]

\* a constructor that never fetches the checkpoint file
DownloadCheckpoint_skip(s) == s

\* download_task(basename, current_checkpoint, ftp=ftp): the local file is created
\* whether or not the transfer goes through
DownloadCheckpoint(s) == [s EXCEPT !.files = @ \cup {s.cur}]

\* FTPFileCheckpointsMonitor.__init__ up to the first load: the local constructor,
\* the download of the status file, _load_current_status without the file check
BootstrapLoad(s0, rem, ok_status) ==
    LET s1 == _load_statefile(s0)
        s2 == IF rem.dir /\ rem.status.exists
              THEN DownloadStatus(s1, rem, ok_status) ELSE s1
    IN  _load_current_status(s2, FALSE)

\* the checkpoint the constructor downloads: the current one when it is not
\* readable locally, NoPath when there is nothing to download
BlobWanted(s0, rem, ok_status) ==
    LET s3 == BootstrapLoad(s0, rem, ok_status)
    IN  IF s3.cur # NoPath /\ ~Readable(s3.cur, s3.files) THEN s3.cur ELSE NoPath

\* FTPFileCheckpointsMonitor.__init__ after a session was opened: the local
\* constructor, the status file, the current checkpoint, the second load
Bootstrap(s0, rem, ok_status) ==
    LET s3 == BootstrapLoad(s0, rem, ok_status)
        s4 == IF BlobWanted(s0, rem, ok_status) # NoPath
              THEN DownloadCheckpoint(s3) ELSE s3
    IN  _load_current_status(s4, TRUE)

\* a constructor that leaves the server as it found it
MakeFolder_none(rem) == rem

\* ftp.mkd(self.remote_folder) unless the folder is there already
MakeFolder(rem) == [rem EXCEPT !.dir = TRUE]

\* FTPFileCheckpointsMonitor(...)
FtpConstruct ==
    /\ kind = "ftp" /\ phase = "new"
    /\ \E arg \in FtpRotateArgs : CtorRotate(TRUE, arg)
    /\ die_on_ftperrors' \in BOOLEAN
    /\ \E connected \in BOOLEAN, ok_status \in BOOLEAN, ok_blob \in BOOLEAN :
         LET s0 == [State EXCEPT !.cps = <<>>, !.cur = NoPath, !.par = EmptyDict]
             wanted == IF connected THEN BlobWanted(s0, remote, ok_status) ELSE NoPath
         IN
         /\ ok_blob => wanted \in remote.blobs
         /\ boot' = [sf |-> statefile, files |-> disk, rem |-> remote,
                     connected |-> connected, ok_status |-> ok_status,
                     ok_blob |-> ok_blob,
                     hollow |-> IF wanted # NoPath /\ ~ok_blob THEN {wanted} ELSE {}]
         /\ IF ~connected
            THEN /\ ~ok_status
                 /\ SetState(_load_statefile(s0))
                 /\ lastErr' = Raised("ftplib.error")
                 /\ remote' = remote
                 /\ phase' = "failed"
            ELSE /\ ok_status => remote.dir /\ remote.status.exists
                 /\ SetState(Bootstrap(s0, remote, ok_status))
                 /\ lastErr' = NoError
                 /\ remote' = MakeFolder(remote)
                 /\ phase' = "ready"
    /\ lastOp' = "construct" /\ lastRet' = FALSE
    /\ UNCHANGED <<kind, thread_dead, thread_result, queue, workers, fg, ntasks,
                   lastCall, reloadOf, before, lastMissing, runVars, surfaced, xfer>>

FgIdle == kind = "ftp" /\ phase = "ready" /\ fg.pc = "idle"

\* a call that registers a checkpoint is possible while fewer than MaxUploads are
\* registered; a call that names a missing file registers nothing and is always
\* possible
MayUpload(file_path, saved) ==
    \/ nwrites < MaxUploads
    \/ ~saved /\ file_path \notin disk

\* on_checkpoint_written(file_path, params) is called: __thread_check reads
\* self.thread_dead
FtpCall ==
    /\ FgIdle
    /\ \E file_path \in Paths, params \in FtpParams, saved \in BOOLEAN :
         /\ saved => file_path \notin disk
         /\ MayUpload(file_path, saved)
         /\ disk' = IF saved THEN disk \cup {file_path} ELSE disk
         /\ fg' = [pc |-> IF ~thread_dead THEN "super"
                          ELSE IF die_on_ftperrors THEN "raise" ELSE "log",
                   path |-> file_path, params |-> params, sawDead |-> thread_dead,
                   snap |-> Snapshot(State)]
    /\ lastOp' = "busy" /\ lastErr' = NoError /\ lastRet' = FALSE
    /\ lastCall' = NoCall /\ reloadOf' = NoReload
    /\ before' = NoSnapshot /\ lastMissing' = FALSE
    /\ boot' = NoBoot
    /\ UNCHANGED <<cfgVars, checkpoints, current_checkpoint, current_params, statefile,
                   thread_dead, thread_result, queue, workers, remote, ntasks,
                   runVars, surfaced, xfer>>

Surface(e) ==
    surfaced' = IF e.kind = "task" /\ surfaced[e.id] < 2
                THEN [surfaced EXCEPT ![e.id] = @ + 1] ELSE surfaced

\* the call ends: the foreground is idle again
FgDone == [IdleFg EXCEPT !.sawDead = fg.sawDead]

\* __thread_check: raise self.thread_result
FgRaise ==
    /\ kind = "ftp" /\ fg.pc = "raise"
    /\ WriteRaised(IF thread_result = NoError THEN Raised("TypeError") ELSE thread_result,
                   fg.snap)
    /\ lastMissing' = (fg.path \notin disk)
    /\ Surface(thread_result)
    /\ fg' = FgDone
    /\ UNCHANGED <<cfgVars, monVars, thread_dead, thread_result, queue, workers, remote,
                   ntasks, boot, xfer>>

\* __thread_check: logger.exception('Thread error', exc_info=self.thread_result)
FgLog ==
    /\ kind = "ftp" /\ fg.pc = "log"
    /\ Surface(thread_result)
    /\ fg' = [fg EXCEPT !.pc = "clear_dead"]
    /\ UNCHANGED <<cfgVars, monVars, thread_dead, thread_result, queue, workers, remote,
                   ntasks, callVars, runVars, boot, xfer>>

\* __thread_check: self.thread_dead = False
FgClearDead ==
    /\ kind = "ftp" /\ fg.pc = "clear_dead"
    /\ thread_dead' = FALSE
    /\ fg' = [fg EXCEPT !.pc = "clear_result"]
    /\ UNCHANGED <<cfgVars, monVars, thread_result, queue, workers, remote, ntasks,
                   callVars, runVars, ghostVars, xfer>>

\* __thread_check: self.thread_result = None
FgClearResult ==
    /\ kind = "ftp" /\ fg.pc = "clear_result"
    /\ thread_result' = NoError
    /\ fg' = [fg EXCEPT !.pc = "super"]
    /\ UNCHANGED <<cfgVars, monVars, thread_dead, queue, workers, remote, ntasks,
                   callVars, runVars, ghostVars, xfer>>

DeleteTask(p) == [op |-> "delete", file |-> p, id |-> 0]
UploadTask(p, id) == [op |-> "upload", file |-> p, id |-> id]

\* a rotation that tells the server nothing
SubmitDeletes_none(q, called) == q

\* rotate_fn of every removed file: __ftp_remove submits a delete of its basename
SubmitDeletes(q, called) == q \o [i \in 1..Len(called) |-> DeleteTask(called[i])]

\* a status upload whose failure is raised only by a monitor that dies on FTP errors
StatusUploadRaises_soft(ok, die) == ~ok /\ die

\* upload_task(self.state_filepath, ..., die_on_ftperrors=True): a failed status
\* upload raises, whatever the monitor's own die_on_ftperrors (die) is
StatusUploadRaises(ok, die) == ~ok

\* a queue that gets the checkpoint upload whether or not the status upload raised
BlobQueue_always(deletes, raised, task) == Append(deletes, task)

\* the executor's queue after the call: self.__ftp_upload(file_path, basename) is
\* reached only when upload_task of the status file did not raise
BlobQueue(deletes, raised, task) == IF raised THEN deletes ELSE Append(deletes, task)

\* the rest of on_checkpoint_written(file_path, params) after __thread_check:
\* super().on_checkpoint_written, rotating through the override; upload_task of the
\* status file in the calling thread (ok: it went through); __ftp_upload submits
\* the upload of the checkpoint
FgSuper ==
    /\ kind = "ftp" /\ fg.pc = "super"
    /\ \E denied \in Denials(ToRemove(Append(checkpoints, fg.path), rotate_number, 0)),
          ok \in BOOLEAN :
         LET r == on_checkpoint_written(State, rotate_number, fg.path, fg.params, denied)
             deletes == SubmitDeletes(queue, r.called)
             failed == StatusUploadRaises(ok, die_on_ftperrors)
         IN  /\ fg.path \notin disk => denied = {} /\ ~ok
             /\ SetState(r.s)
             /\ lastMissing' = (fg.path \notin disk)
             /\ fg' = FgDone
             /\ IF r.raised
                THEN /\ WriteRaised(Raised("FileNotFoundError"), fg.snap)
                     /\ UNCHANGED <<queue, remote, ntasks>>
                ELSE /\ nwrites' = nwrites + 1
                     /\ UNCHANGED <<onlyWrites, loaded, track, written>>
                     /\ reloadOf' = NoReload /\ lastRet' = FALSE
                     /\ lastOp' = "write"
                     /\ lastCall' = [path |-> fg.path, params |-> fg.params]
                     /\ remote' = IF ok THEN [remote EXCEPT !.status = r.s.sf] ELSE remote
                     /\ queue' = BlobQueue(deletes, failed, UploadTask(fg.path, ntasks + 1))
                     /\ ntasks' = IF failed THEN ntasks ELSE ntasks + 1
                     /\ lastErr' = IF failed THEN Raised("ftplib.error") ELSE NoError
                     /\ before' = IF failed THEN fg.snap ELSE NoSnapshot
    /\ UNCHANGED <<cfgVars, thread_dead, thread_result, workers, ghostVars, xfer>>

\* no task is queued or running
PoolQuiet == queue = <<>> /\ \A w \in 1..NumWorkers : workers[w].pc = "idle"

\* rotate_checkpoints(rotate_number=arg) of the remote-mirrored monitor, called
\* between two checkpoints when there is something to evict and the pool is quiet
\* (the rotation inside on_checkpoint_written runs beside the pool's tasks)
FtpRotate ==
    /\ FgIdle /\ PoolQuiet
    /\ \E arg \in {0, 1} :
         \E denied \in Denials(ToRemove(checkpoints, rotate_number, arg)) :
           LET r == rotate_checkpoints(State, rotate_number, arg, denied) IN
           /\ ToRemove(checkpoints, rotate_number, arg) # {}
           /\ SetState(r.s)
           /\ queue' = SubmitDeletes(queue, r.called)
    /\ lastOp' = "rotate" /\ lastRet' = FALSE
    /\ lastErr' = NoError /\ lastCall' = NoCall /\ reloadOf' = NoReload
    /\ before' = NoSnapshot /\ lastMissing' = FALSE
    /\ boot' = NoBoot
    /\ UNCHANGED <<cfgVars, thread_dead, thread_result, workers, remote, fg, ntasks,
                   runVars, surfaced, xfer>>

\* reset() of the remote-mirrored monitor (inherited), called when there is
\* something to forget
FtpReset ==
    /\ FgIdle
    /\ checkpoints # <<>> \/ current_checkpoint # NoPath
    /\ SetState(reset(State))
    /\ lastOp' = "reset"
    /\ lastErr' = NoError /\ lastRet' = FALSE /\ lastCall' = NoCall
    /\ reloadOf' = NoReload /\ before' = NoSnapshot /\ lastMissing' = FALSE
    /\ boot' = NoBoot
    /\ UNCHANGED <<cfgVars, ftpVars, runVars, surfaced, xfer>>

\* ------------------------------------------------- the executor's threads
\* thread w has finished its task.  The threads are alike, so the busy ones are
\* kept in front, in the order in which they took their tasks
Release(ws, w) ==
    [i \in 1..NumWorkers |-> IF i < w THEN ws[i]
                             ELSE IF i < NumWorkers THEN ws[i + 1] ELSE IdleWorker]

\* a free thread takes the oldest submitted task (the free thread with the
\* smallest number stands for any of them)
WTake(w) ==
    /\ kind = "ftp" /\ workers[w].pc = "idle" /\ queue # <<>>
    /\ \A v \in 1..(w - 1) : workers[v].pc # "idle"
    /\ workers' = [workers EXCEPT ![w] = [pc |-> "run", task |-> Head(queue)]]
    /\ queue' = Tail(queue)
    /\ UNCHANGED <<cfgVars, monVars, thread_dead, thread_result, remote, fg, ntasks,
                   callVars, runVars, ghostVars, xfer>>

\* runner of __ftp_upload: upload_task(..., die_on_ftperrors=True) opens the local
\* file and stores it, or raises
WUpload(w) ==
    /\ kind = "ftp" /\ workers[w].pc = "run" /\ workers[w].task.op = "upload"
    /\ \E ok \in BOOLEAN :
         /\ ok => Readable(workers[w].task.file, disk)
         /\ IF ok
            THEN /\ remote' = [remote EXCEPT !.blobs = @ \cup {workers[w].task.file}]
                 /\ workers' = Release(workers, w)
            ELSE /\ remote' = remote
                 /\ workers' = [workers EXCEPT ![w].pc = "set_dead"]
    /\ UNCHANGED <<cfgVars, monVars, thread_dead, thread_result, queue, fg, ntasks,
                   callVars, runVars, ghostVars, xfer>>

\* runner of __ftp_upload, except BaseException: self.thread_dead = True
WSetDead(w) ==
    /\ kind = "ftp" /\ workers[w].pc = "set_dead"
    /\ thread_dead' = TRUE
    /\ workers' = [workers EXCEPT ![w].pc = "set_result"]
    /\ UNCHANGED <<cfgVars, monVars, thread_result, queue, remote, fg, ntasks,
                   callVars, runVars, ghostVars, xfer>>

\* runner of __ftp_upload, except BaseException: self.thread_result = e
WSetResult(w) ==
    /\ kind = "ftp" /\ workers[w].pc = "set_result"
    /\ thread_result' = TaskError(workers[w].task.id)
    /\ workers' = Release(workers, w)
    /\ UNCHANGED <<cfgVars, monVars, thread_dead, queue, remote, fg, ntasks,
                   callVars, runVars, ghostVars, xfer>>

\* a delete runner that reports its failure like the upload runner does
DeleteFailureFlag_dies(dead) == TRUE

\* runner of __ftp_remove, except BaseException: logger.error only; self.thread_dead
\* keeps its value
DeleteFailureFlag(dead) == dead

\* runner of __ftp_remove: ftp.delete(fname) goes through, or raises
WDelete(w) ==
    /\ kind = "ftp" /\ workers[w].pc = "run" /\ workers[w].task.op = "delete"
    /\ \E ok \in BOOLEAN :
         /\ ok => workers[w].task.file \in remote.blobs
         /\ IF ok
            THEN /\ remote' = [remote EXCEPT !.blobs = @ \ {workers[w].task.file}]
                 /\ workers' = Release(workers, w)
            ELSE /\ remote' = remote
                 /\ workers' = [workers EXCEPT ![w].pc = "delete_failed"]
    /\ UNCHANGED <<cfgVars, monVars, thread_dead, thread_result, queue, fg, ntasks,
                   callVars, runVars, ghostVars, xfer>>

\* runner of __ftp_remove, except BaseException: the error is logged
WDeleteFailed(w) ==
    /\ kind = "ftp" /\ workers[w].pc = "delete_failed"
    /\ thread_dead' = DeleteFailureFlag(thread_dead)
    /\ workers' = Release(workers, w)
    /\ UNCHANGED <<cfgVars, monVars, thread_result, queue, remote, fg, ntasks,
                   callVars, runVars, ghostVars, xfer>>

Worker(w) ==
    \/ WTake(w) \/ WUpload(w) \/ WSetDead(w) \/ WSetResult(w)
    \/ WDelete(w) \/ WDeleteFailed(w)

NextFtp ==
    \/ FtpConstruct
    \/ FtpCall \/ FgRaise \/ FgLog \/ FgClearDead \/ FgClearResult
    \/ FgSuper
    \/ FtpRotate \/ FtpReset
    \/ \E w \in 1..NumWorkers : Worker(w)

SpecFtp == InitFtp /\ [][NextFtp]_vars

\* the step meets no transport error: the constructor's session and downloads, the
\* status upload of a call, the store of an upload runner whose file is there and
\* the delete of a blob that is on the server all go through
NoTransportError ==
    /\ lastOp' = "construct" =>
          /\ boot'.connected
          /\ (remote.dir /\ remote.status.exists) => boot'.ok_status
          /\ boot'.hollow \cap remote.blobs = {}
    /\ fg.pc = "super" => lastErr' # Raised("ftplib.error")
    /\ \A w \in 1..NumWorkers :
          /\ (workers[w].pc = "run" /\ workers'[w].pc = "set_dead")
                => ~Readable(workers[w].task.file, disk)
          /\ (workers[w].pc = "run" /\ workers'[w].pc = "delete_failed")
                => workers[w].task.file \notin remote.blobs

\* the remote-mirrored monitor with a user who only calls on_checkpoint_written,
\* over a transport without faults
NextMirror ==
    \/ FtpConstruct /\ NoTransportError
    \/ FtpCall
    \/ FgRaise
    \/ FgLog
    \/ FgClearDead
    \/ FgClearResult
    \/ FgSuper /\ NoTransportError
    \/ \E w \in 1..NumWorkers : Worker(w) /\ NoTransportError

SpecMirror == InitFtp /\ [][NextMirror]_vars

\* both monitors
Spec == (InitLocal \/ InitFtp) /\ [][NextLocal \/ NextFtp]_vars
\* ================================================================= claims
\* ------------------------------------- download_task / upload_task (ftptasks.py)
\* The source file holds the bytes 1..size; a file that was at the destination
\* before the call holds bytes 0.
SourceBytes(size) == [i \in 1..size |-> i]
\* the files that may be at the destination before the call: none, or an older
\* file of some length
OldFiles == {[i \in 1..n |-> 0] : n \in 0..MaxBytes}

\* the inputs of one call
TaskKinds == {"download", "upload"}
TaskSizes == 0..MaxBytes

\* a task that was called: its arguments, its locals and what it has done so far.
\*   dst, there   the destination file (local for a download, on the server for an
\*                upload) and whether it exists
\*   session      the FTP session of the wrapper is open; dispose: it is the task's own
\*   made         attempts started; err: the number of the attempt that failed last
\*   cmd, rest    the transfer command the last attempt sent, if it got that far,
\*                and its offset
\*   stores       the attempts that sent their store command
\*   old          the destination file as it was when the task was called
\*   ret, reterr  how the call ended and the error it handed out
StartXfer(task, die, dispose, size, old) ==
    [pc |-> "try", task |-> task, die |-> die, dispose |-> dispose, size |-> size,
     old |-> old, stores |-> 0,
     dst |-> old, there |-> old # <<>>, first_access |-> TRUE, session |-> ~dispose,
     attempts |-> FTP_RETRY_COUNT, made |-> 0, err |-> 0, clean |-> FALSE,
     cmd |-> "none", rest |-> 0, ret |-> "none", reterr |-> 0]

InitTransfer ==
    /\ kind = "task"
    /\ InitCommon
    /\ statefile = AbsentFile /\ disk = {} /\ remote = NoRemote

\* the call ends: the with block is left, the result is handed out
Leave(x, ret, reterr) == [x EXCEPT !.pc = "done", !.ret = ret, !.reterr = reterr]

\* a download that always asks for the whole file
RestOffset_zero(tell) == 0

\* the offset a download attempt asks for: f.tell()
RestOffset(tell) == tell

\* a download that opens its target without emptying it
OpenTarget_keep(task, old) == old

\* the destination file once the task has opened its files: open(to_filepath,
\* 'w+b') empties the target of a download; an upload leaves the server alone
OpenTarget(task, old) == IF task = "download" THEN <<>> ELSE old

\* download_task(...) / upload_task(...) is called.  A download opens its local
\* file 'w+b', which creates or empties it; an upload opens its local file 'rb',
\* which raises when the file is not there
TaskCall ==
    /\ kind = "task" /\ xfer.pc = "none"
    /\ \E task \in TaskKinds, die \in BOOLEAN, dispose \in BOOLEAN, size \in TaskSizes,
          old \in OldFiles, present \in BOOLEAN :
         LET x == StartXfer(task, die, dispose, size, old) IN
         /\ task = "download" => present
         /\ ~present => size = 0 /\ old = <<>> /\ ~die /\ dispose
         /\ xfer' = IF task = "download"
                    THEN [x EXCEPT !.dst = OpenTarget(task, old), !.there = TRUE]
                    ELSE IF present THEN x
                    ELSE Leave(x, "raised", FileNotFound)
    /\ UNCHANGED <<cfgVars, monVars, ftpVars, callVars, runVars, ghostVars>>

\* one pass of download_task's try block.  reached: the commands before the
\* transfer went through; sent: the bytes received before the transfer ended;
\* ok: it ended with the server's closing reply
DownloadAttempt ==
    /\ kind = "task" /\ xfer.pc = "try" /\ xfer.task = "download"
    /\ \E reached \in BOOLEAN, ok \in BOOLEAN, sent \in 0..MaxBytes :
         LET tell == Len(xfer.dst)
             rest == RestOffset(tell)
             x == [xfer EXCEPT !.made = @ + 1, !.session = TRUE, !.clean = FALSE,
                               !.cmd = "none", !.rest = 0]
         IN
         /\ ~reached => ~ok /\ sent = 0
         /\ rest + sent <= xfer.size
         /\ ok => rest + sent = xfer.size
         /\ xfer' =
              IF ~reached THEN [x EXCEPT !.pc = "except", !.err = x.made]
              ELSE IF xfer.size = 0 THEN Leave(x, "raised", ZeroDivision)
              ELSE LET y == [x EXCEPT !.cmd = IF tell = 0 THEN "RETR" ELSE "RETR+REST",
                                      !.rest = rest,
                                      !.dst = @ \o SubSeq(SourceBytes(x.size), rest + 1,
                                                          rest + sent)]
                   IN  IF ok THEN [y EXCEPT !.pc = "close", !.clean = TRUE]
                       ELSE [y EXCEPT !.pc = "except", !.err = x.made]
    /\ UNCHANGED <<cfgVars, monVars, ftpVars, callVars, runVars, ghostVars>>

\* an upload that resumes whenever the name is on the server
ResumeOffset_always(there, first_access, remote_size) ==
    IF there THEN remote_size ELSE 0

\* rest_pos: the size of the file on the server when the name is listed and this
\* is not the call's first access, 0 otherwise
ResumeOffset(there, first_access, remote_size) ==
    IF there /\ ~first_access THEN remote_size ELSE 0

\* one pass of upload_task's try block.  reached: the commands before STOR went
\* through; opened: the server opened the file for STOR; sent: the bytes it
\* stored before the transfer ended; ok: it ended with the closing reply.  The
\* server keeps the file up to the offset and puts the bytes it receives behind
\* it (the local file is read from the same offset, f.seek(rest_pos))
UploadAttempt ==
    /\ kind = "task" /\ xfer.pc = "try" /\ xfer.task = "upload"
    /\ \E reached \in BOOLEAN, opened \in BOOLEAN, ok \in BOOLEAN, sent \in 0..MaxBytes :
         LET rest_pos == ResumeOffset(xfer.there, xfer.first_access, Len(xfer.dst))
             left == IF rest_pos < xfer.size THEN xfer.size - rest_pos ELSE 0
             x == [xfer EXCEPT !.made = @ + 1, !.session = TRUE, !.clean = FALSE,
                               !.cmd = "none", !.rest = 0]
         IN
         /\ ~reached => ~opened
         /\ ~opened => ~ok /\ sent = 0
         /\ sent <= left
         /\ ok => sent = left
         /\ xfer' =
              IF ~reached THEN [x EXCEPT !.pc = "except", !.err = x.made]
              ELSE IF xfer.size = 0 THEN Leave(x, "raised", ZeroDivision)
              ELSE LET y == [x EXCEPT !.first_access = FALSE,
                                      !.cmd = IF rest_pos = 0 THEN "STOR" ELSE "STOR+REST",
                                      !.rest = rest_pos, !.stores = @ + 1]
                       z == IF ~opened THEN y
                            ELSE [y EXCEPT !.there = TRUE,
                                           !.dst = SubSeq(@, 1, rest_pos)
                                                     \o SubSeq(SourceBytes(x.size),
                                                               rest_pos + 1, rest_pos + sent)]
                   IN  IF ok THEN [z EXCEPT !.pc = "close", !.clean = TRUE]
                       ELSE [z EXCEPT !.pc = "except", !.err = x.made]
    /\ UNCHANGED <<cfgVars, monVars, ftpVars, callVars, runVars, ghostVars>>

\* ftpw.close(): closes the session when it is the task's own
Close(x) == [x EXCEPT !.session = IF x.dispose THEN FALSE ELSE @]

\* a task that gives up only when no attempt is left below zero
Exhausted_late(attempts) == attempts < 0

\* attempts < 1
Exhausted(attempts) == attempts < 1

\* except ftplib.all_errors: one attempt less; when none is left the error is
\* raised after ftpw.close(), or kept for the return value, leaving the loop
OnTransportError ==
    /\ kind = "task" /\ xfer.pc = "except"
    /\ LET x == [xfer EXCEPT !.attempts = @ - 1] IN
       xfer' = IF Exhausted(x.attempts)
               THEN IF x.die THEN Leave(Close(x), "raised", x.err)
                    ELSE Leave(x, "failed", x.err)
               ELSE [x EXCEPT !.pc = "sleep"]
    /\ UNCHANGED <<cfgVars, monVars, ftpVars, callVars, runVars, ghostVars>>

\* time.sleep(FTP_RETRY_DELAY), ftpw.close(), and the loop starts over
RetryDelay ==
    /\ kind = "task" /\ xfer.pc = "sleep"
    /\ xfer' = [Close(xfer) EXCEPT !.pc = "try"]
    /\ UNCHANGED <<cfgVars, monVars, ftpVars, callVars, runVars, ghostVars>>

\* the attempt went through: ftpw.close(), the loop ends, return (True, None)
TaskReturn ==
    /\ kind = "task" /\ xfer.pc = "close"
    /\ xfer' = Leave(Close(xfer), "ok", 0)
    /\ UNCHANGED <<cfgVars, monVars, ftpVars, callVars, runVars, ghostVars>>

NextTransfer ==
    \/ TaskCall
    \/ DownloadAttempt \/ UploadAttempt
    \/ OnTransportError \/ RetryDelay
    \/ TaskReturn

\* the tasks alone; a task that can take a step takes one
SpecTransfer == InitTransfer /\ [][NextTransfer]_vars /\ WF_vars(NextTransfer)

Min(a, b) == IF a < b THEN a ELSE b

\* the call that just ended is a successful on_checkpoint_written of the local monitor
LocalWriteDone ==
    kind = "local" /\ phase = "ready" /\ lastOp = "write" /\ lastErr = NoError

\* C1: with a rotation count N >= 1, after k successful on_checkpoint_written calls
\* with distinct paths on a monitor that started with an empty history, the history
\* has length min(k, N) and is the N most recently written paths, in writing order.
C1_HistoryIsNewestWritten ==
    (kind = "local" /\ phase = "ready" /\ track # "off" /\ rotate_number >= 1) =>
        LET k == Len(written)
            m == Min(k, rotate_number)
        IN  /\ Len(checkpoints) = m
            /\ \A i \in 1..m : checkpoints[i] = written[k - m + i]

\* more distinct writes than the rotation count: the history has been trimmed
C1_Witness ==
    /\ LocalWriteDone /\ track # "off"
    /\ rotate_number >= 1 /\ Len(written) > rotate_number

NonPositiveRotate == rotate_given /\ rotate_number < 1

\* the constructor was given no rotation count
AbsentRotate == ~rotate_given

\* this step is an on_checkpoint_written or a rotate_checkpoints() that removes no
\* file and does not shorten the history, the rotate_checkpoints() returning false
KeepsEverything ==
    lastOp' \in {"write", "rotate"} =>
        /\ disk \subseteq disk'
        /\ Len(checkpoints') >= Len(checkpoints)
        /\ (lastOp' = "rotate" => lastRet' = FALSE)

\* the history holds what construction loaded (at most one entry) and the writes
HistoryCountsWrites == onlyWrites => Len(checkpoints) = nwrites + loaded

\* C3, as amended: for a monitor constructed with a non-positive rotation count, no
\* sequence of on_checkpoint_written and rotate_checkpoints() calls removes a file
\* or shortens the history, whose length is the number of successful writes plus
\* the entry loaded at construction, and every rotate_checkpoints() returns false.
C3_NonPositiveNeverRotates ==
    /\ [](kind = "local" /\ phase = "ready" /\ NonPositiveRotate => HistoryCountsWrites)
    /\ [][kind = "local" /\ phase = "ready" /\ NonPositiveRotate => KeepsEverything]_vars

\* C3 as stated: the same for a non-positive or an absent rotation count
C3_AsStated ==
    /\ [](kind = "local" /\ phase = "ready" /\ (NonPositiveRotate \/ AbsentRotate)
           => HistoryCountsWrites)
    /\ [][kind = "local" /\ phase = "ready" /\ (NonPositiveRotate \/ AbsentRotate)
           => KeepsEverything]_vars

\* a never-rotating monitor after two writes and a rotate_checkpoints()
C3_Witness ==
    /\ kind = "local" /\ phase = "ready" /\ NonPositiveRotate /\ onlyWrites
    /\ lastOp = "rotate" /\ nwrites >= 2

\* the checkpoint field of the persisted status file is v
PersistedCheckpointIs(v) ==
    /\ statefile.exists /\ statefile.wellformed
    /\ "checkpoint" \in DOMAIN JsonLoad(statefile.pairs)
    /\ JsonLoad(statefile.pairs)["checkpoint"] = v

\* an on_checkpoint_written has just ended whose file was missing or unreadable
MissingFileCall == phase = "ready" /\ fg.pc = "idle" /\ lastOp = "write" /\ lastMissing

\* the call met a pending background failure in a monitor that dies on FTP errors
MetFailureInDieMode == kind = "ftp" /\ die_on_ftperrors /\ fg.sawDead

\* C4, as amended: on_checkpoint_written with a missing or unreadable file always
\* fails and leaves history, current_checkpoint, current_params and the status file
\* unchanged; the error is FileNotFoundError, except in the remote-mirrored monitor
\* that dies on FTP errors when a background failure is pending: there the call
\* fails in the thread check before the file is looked at.
C4_MissingFileFails ==
    MissingFileCall =>
        /\ lastErr # NoError
        /\ (lastErr = Raised("FileNotFoundError") \/ MetFailureInDieMode)
        /\ Snapshot(State) = before

\* C4 as stated: the error is FileNotFoundError for both monitors alike
C4_AsStated ==
    MissingFileCall =>
        /\ lastErr = Raised("FileNotFoundError")
        /\ Snapshot(State) = before

\* a remote-mirrored monitor with a history and a pending failure was handed a
\* missing file and raised the error of the failed upload
C4_Witness ==
    /\ MissingFileCall /\ MetFailureInDieMode
    /\ lastErr.kind = "task" /\ checkpoints # <<>>

\* C5: after every completed public operation (construction, on_checkpoint_written,
\* rotate_checkpoints, reset) the checkpoint field of the persisted status file
\* equals current_checkpoint.
C5_StatusNamesCurrent ==
    (phase = "ready" /\ fg.pc = "idle") => PersistedCheckpointIs(current_checkpoint)

\* a write has replaced an earlier current checkpoint, in memory and in the file
C5_Witness ==
    /\ phase = "ready" /\ fg.pc = "idle" /\ lastOp = "write" /\ lastErr = NoError
    /\ Len(checkpoints) >= 2 /\ checkpoints[1] # current_checkpoint
    /\ current_checkpoint = lastCall.path
    /\ PersistedCheckpointIs(lastCall.path)

\* a fresh local monitor was constructed right after a successful
\* on_checkpoint_written(p, params), the file p still on disk
ReloadedAfterWrite ==
    /\ kind = "local" /\ lastOp = "construct"
    /\ reloadOf.after = "write" /\ reloadOf.onDisk

\* C6: after a successful on_checkpoint_written(p, params), a fresh local monitor on
\* the same folder (p still on disk) has current_checkpoint = p and current_params
\* equal to params with the checkpoint key set to p.
C6_RoundTrip ==
    ReloadedAfterWrite =>
        /\ current_checkpoint = reloadOf.call.path
        /\ current_params = SetKey(reloadOf.call.params, "checkpoint", reloadOf.call.path)

\* the reloaded params carried a checkpoint key of their own, naming another path
C6_Witness ==
    /\ ReloadedAfterWrite
    /\ "checkpoint" \in DOMAIN reloadOf.call.params
    /\ reloadOf.call.params["checkpoint"] # reloadOf.call.path
    /\ "epoch" \in DOMAIN current_params

AfterReset == lastOp \in {"reset", "reset2"}

\* C7: reset() is idempotent: after a reset the history and current_checkpoint are
\* empty and the persisted checkpoint is empty; a second reset in a row changes
\* neither the in-memory state nor the status file; no reset deletes a file.
C7_ResetIdempotent ==
    /\ [](kind = "local" /\ AfterReset =>
             /\ checkpoints = <<>> /\ current_checkpoint = NoPath
             /\ PersistedCheckpointIs(NoPath))
    /\ [][kind = "local" /\ AfterReset' =>
             /\ disk' = disk
             /\ (AfterReset => /\ checkpoints' = checkpoints
                               /\ current_checkpoint' = current_checkpoint
                               /\ current_params' = current_params
                               /\ statefile' = statefile)]_vars

\* two resets in a row on a monitor with a checkpoint file in its folder
C7_Witness == kind = "local" /\ lastOp = "reset2" /\ disk # {}

\* C8: construction of a local monitor never raises because of the status file,
\* whatever it holds (absent, malformed, no checkpoint key, naming an unreadable
\* file, valid); afterwards current_checkpoint is empty, the reset state being
\* persisted, or names a readable file.
C8_ConstructionLoadable ==
    (kind = "local" /\ lastOp = "construct") =>
        /\ lastErr = NoError
        /\ \/ /\ current_checkpoint = NoPath /\ checkpoints = <<>>
              /\ PersistedCheckpointIs(NoPath)
           \/ /\ current_checkpoint # NoPath
              /\ Readable(current_checkpoint, disk)

\* the status file named a checkpoint whose file is gone: construction has reset
C8_Witness ==
    /\ kind = "local" /\ lastOp = "construct"
    /\ reloadOf.after = "write" /\ ~reloadOf.onDisk
    /\ current_checkpoint = NoPath

\* an on_checkpoint_written of a monitor that dies on FTP errors has just ended
\* that found the thread_dead flag set
DieModeCallMetFailure ==
    /\ kind = "ftp" /\ die_on_ftperrors
    /\ fg.pc = "idle" /\ lastOp = "write" /\ fg.sawDead

\* C9: in a monitor that dies on FTP errors, the on_checkpoint_written that follows
\* a failed background upload raises the error recorded by the failed task, under
\* every interleaving of the worker and the caller, and leaves history,
\* current_checkpoint, current_params and the status file unchanged.
C9_RaisesRecordedError ==
    DieModeCallMetFailure =>
        /\ lastErr.kind = "task"
        /\ Snapshot(State) = before

\* C10: a recorded background failure is raised or logged by at most one
\* on_checkpoint_written.
C10_SurfacedOnce == \A i \in 1..MaxUploads : surfaced[i] <= 1

\* an on_checkpoint_written of the remote-mirrored monitor has just ended
FtpCallEnded == kind = "ftp" /\ phase = "ready" /\ fg.pc = "idle" /\ lastOp = "write"

\* ... with the error of the synchronous status upload
StatusUploadFailed == FtpCallEnded /\ lastErr = Raised("ftplib.error")

NewUploads ==
    {queue'[i] : i \in {j \in 1..Len(queue') : queue'[j].op = "upload"}} \ Elems(queue)

DeleteFailed(w) == workers[w].pc = "delete_failed"

\* the threads in the except branch of a delete runner; the step that takes one of
\* them out is the end of its handler
DeleteHandlers == {w \in 1..NumWorkers : DeleteFailed(w)}

\* thread w is in the except branch of an upload runner
UploadFailed(w) ==
    workers[w].pc \in {"set_dead", "set_result"} /\ workers[w].task.op = "upload"

FtpConstructed == kind = "ftp" /\ phase = "ready" /\ lastOp = "construct"

\* the constructor asked for a checkpoint file whose transfer did not go through
BlobDownloadFailed == FtpConstructed /\ boot.hollow # {}

\* C14: the constructor of the remote-mirrored monitor never ends with a current
\* checkpoint it cannot load: when the download of the checkpoint named by the
\* status failed, it ends in the reset state, and a current checkpoint that is
\* set after construction is a local file holding the whole remote blob
C14_BootstrapNeverUnloadable ==
    /\ BlobDownloadFailed => (current_checkpoint = NoPath /\ checkpoints = <<>>)
    /\ (FtpConstructed /\ current_checkpoint # NoPath) =>
          (current_checkpoint \in disk /\ current_checkpoint \notin boot.hollow)

\* the record the remote status file held when the constructor started
RemoteRecord == JsonLoad(boot.rem.status.pairs)

\* a machine without local status and checkpoints was constructed against a folder
\* holding a status file and the blob it names, and every transfer went through
FreshJoin ==
    /\ FtpConstructed
    /\ boot.sf = AbsentFile /\ boot.files = {}
    /\ boot.rem.dir /\ boot.rem.status.wellformed
    /\ "checkpoint" \in DOMAIN RemoteRecord
    /\ RemoteRecord["checkpoint"] \in boot.rem.blobs
    /\ boot.connected /\ boot.ok_status /\ boot.ok_blob

EmptyRemoteJoin ==
    /\ kind = "ftp" /\ lastOp = "construct"
    /\ boot.connected /\ ~boot.rem.dir
    /\ boot.sf = AbsentFile /\ boot.files = {}

\* C16: a remote-mirrored monitor bootstrapped against a server where the target
\* folder does not exist, with no local state, creates the remote folder, ends
\* construction with empty history and empty current_checkpoint, and does not raise
C16_EmptyRemoteBootstrap ==
    EmptyRemoteJoin =>
        /\ phase = "ready" /\ lastErr = NoError
        /\ remote.dir
        /\ checkpoints = <<>> /\ current_checkpoint = NoPath

\* the constructor has returned on a server that had no target folder
C16_Witness == EmptyRemoteJoin /\ phase = "ready" /\ remote.dir /\ disk = {}

\* the history a rotation pass trims: inside on_checkpoint_written the new path
\* has been appended
BeforePass == IF fg.pc = "super" THEN Append(checkpoints, fg.path) ELSE checkpoints

\* the step runs a rotation pass: the rest of a call that registered its file, or
\* rotate_checkpoints called by the user
RotationPass ==
    /\ kind = "ftp"
    /\ \/ fg.pc = "super" /\ ~lastMissing'
       \/ lastOp' = "rotate" /\ Len(checkpoints') < Len(checkpoints)

\* the paths the pass drops from the history
Evicted == Elems(SubSeq(BeforePass, 1, Len(BeforePass) - Len(checkpoints')))

\* the files whose remote delete the step submits
NewDeletes ==
    {queue'[i].file : i \in {j \in (Len(queue) + 1)..Len(queue') : queue'[j].op = "delete"}}

\* C17: a rotation pass of the remote-mirrored monitor submits a remote delete for
\* exactly the evicted paths whose local file it removed; an evicted path whose
\* local removal fails gets none
C17_DeletesFollowRemovals ==
    [][RotationPass => NewDeletes = Evicted \cap (disk \ disk')]_vars

\* C17 as stated: every evicted path gets a remote delete, also when its local
\* removal fails
C17_AsStated == [][RotationPass => Evicted \subseteq NewDeletes]_vars

\* rotate_checkpoints removed the file of path 1 and submitted its remote delete
C17_Witness ==
    /\ kind = "ftp" /\ lastOp = "rotate"
    /\ queue = <<DeleteTask(1)>> /\ 1 \notin disk

\* the files of the submitted tasks of one kind that have not ended: queued, or
\* held by a thread
Outstanding(op) ==
    {queue[i].file : i \in {j \in 1..Len(queue) : queue[j].op = op}}
      \cup {workers[w].task.file :
              w \in {v \in 1..NumWorkers : workers[v].pc # "idle" /\ workers[v].task.op = op}}

\* C18: background deletes and uploads target disjoint filenames: an upload and a
\* delete of the same remote filename are never outstanding together, and no
\* upload starts for a checkpoint whose local file rotation has removed
C18_DisjointFilenames ==
    kind = "ftp" =>
        /\ Outstanding("upload") \cap Outstanding("delete") = {}
        /\ \A w \in 1..NumWorkers :
              (workers[w].pc = "run" /\ workers[w].task.op = "upload") =>
                  workers[w].task.file \in disk

\* the call of the transfer task has ended
TaskEnded == kind = "task" /\ xfer.pc = "done"

\* ... and every attempt it made met a transport error
AllAttemptsFailed ==
    TaskEnded /\ xfer.made > 0 /\ xfer.made = FTP_RETRY_COUNT - xfer.attempts

\* C19: a transfer task (download_task or upload_task) always terminates; when
\* every attempt meets a transport error it makes exactly FTP_RETRY_COUNT attempts
\* and no more, then raises the last error when die_on_ftperrors is true and
\* returns (False, last error) without raising when it is false; it returns
\* (True, None) only after an attempt that completed without error
C19_TaskTerminates ==
    /\ [](kind = "task" =>
            /\ xfer.made <= FTP_RETRY_COUNT
            /\ AllAttemptsFailed =>
                  /\ xfer.made = FTP_RETRY_COUNT
                  /\ xfer.reterr = FTP_RETRY_COUNT
                  /\ xfer.ret = IF xfer.die THEN "raised" ELSE "failed"
            /\ (TaskEnded /\ xfer.ret = "ok") => (xfer.clean /\ xfer.reterr = 0))
    /\ <>TaskEnded

\* a task not told to die has used up its attempts and returned the last error
C19_Witness ==
    /\ AllAttemptsFailed /\ ~xfer.die
    /\ xfer.ret = "failed" /\ xfer.reterr = FTP_RETRY_COUNT

\* the step is a download attempt that sends its retrieve command
RetrieveSent ==
    /\ kind = "task" /\ xfer.task = "download" /\ xfer.pc = "try"
    /\ xfer'.cmd # "none"

\* C20: within one download_task call every attempt asks for the remote file from
\* the offset equal to the local file's length at that time (a plain retrieve at 0,
\* a retrieve with a restart offset otherwise), never from 0 once bytes were
\* written; the local file is always a prefix of the remote one, and when the task
\* reports success it is the whole remote file, no byte duplicated or skipped
C20_DownloadResume ==
    /\ [][RetrieveSent =>
            /\ xfer'.rest = Len(xfer.dst)
            /\ xfer'.cmd = IF Len(xfer.dst) = 0 THEN "RETR" ELSE "RETR+REST"]_vars
    /\ []((kind = "task" /\ xfer.task = "download") =>
            /\ Len(xfer.dst) <= xfer.size
            /\ xfer.dst = SubSeq(SourceBytes(xfer.size), 1, Len(xfer.dst))
            /\ (xfer.pc = "done" /\ xfer.ret = "ok") => xfer.dst = SourceBytes(xfer.size))

\* a download that lost its connection in the middle of the file has resumed from
\* the bytes it had and reported success
C20_Witness ==
    /\ TaskEnded /\ xfer.task = "download" /\ xfer.ret = "ok"
    /\ xfer.made > 1 /\ xfer.cmd = "RETR+REST"
    /\ xfer.rest > 0 /\ xfer.rest < xfer.size
    /\ xfer.dst = SourceBytes(xfer.size)

\* the step is an upload attempt that sends its store command
StoreSent ==
    /\ kind = "task" /\ xfer.task = "upload" /\ xfer.pc = "try"
    /\ xfer'.cmd # "none"

\* C21: an upload attempt stores from the size of the remote file, as it is
\* during that attempt, when the name is on the server and an earlier attempt of
\* the same call has sent a store; in every other case, a name that is not on the
\* server and the first store of the call over an older file, it stores from 0
C21_UploadOffset ==
    [][StoreSent =>
         /\ xfer'.rest = IF xfer.there /\ xfer.stores > 0 THEN Len(xfer.dst) ELSE 0
         /\ xfer'.cmd = IF xfer'.rest = 0 THEN "STOR" ELSE "STOR+REST"
         /\ xfer'.pc \in {"close", "except"}]_vars

\* C21 as stated: on every attempt a name that is on the server is resumed from
\* its size
C21_AsStated ==
    [][StoreSent => xfer'.rest = IF xfer.there THEN Len(xfer.dst) ELSE 0]_vars

\* a later attempt has resumed behind the bytes an earlier one had stored
C21_Witness ==
    /\ kind = "task" /\ xfer.task = "upload" /\ xfer.stores > 1
    /\ xfer.cmd = "STOR+REST" /\ xfer.rest > 0 /\ xfer.rest < xfer.size
    /\ xfer.old = <<>>

\* the task has ended without having met a transport error
EndedFaultFree == TaskEnded /\ xfer.made > 0 /\ xfer.attempts = FTP_RETRY_COUNT

\* C22: transferring a file of zero bytes does not fail: with a transport free of
\* faults the download of an empty remote file and the upload of an empty local
\* file end with (True, None); computing the progress never changes the outcome
C22_ZeroByteTransfers ==
    /\ (EndedFaultFree /\ xfer.size = 0) => xfer.ret = "ok"
    /\ TaskEnded => xfer.reterr # ZeroDivision

\* no upload runner is between its failure and the end of its except branch
NoFailureInFlight ==
    \A w \in 1..NumWorkers : workers[w].pc \notin {"set_dead", "set_result"}

\* the recorded failure has not been raised or logged by any call
Unreported == thread_result.kind = "task" /\ surfaced[thread_result.id] = 0

\* C23: a background upload failure is never silently lost: between two calls a
\* recorded failure that no call has raised or logged is still flagged for the
\* next on_checkpoint_written, and the foreground never clears a failure it did
\* not report
C23_FailureNeverLost ==
    /\ []((kind = "ftp" /\ fg.pc = "idle" /\ NoFailureInFlight /\ Unreported) => thread_dead)
    /\ [][(kind = "ftp" /\ fg.pc = "clear_result" /\ thread_result' = NoError)
            => ~Unreported]_vars

\* the step is a rotation pass of the local monitor called by the user
LocalRotationPass ==
    /\ kind = "local" /\ phase = "ready"
    /\ lastOp' \in {"rotate", "rotateN"}
    /\ Len(checkpoints') < Len(checkpoints)

\* the paths that pass drops from the history
LocalEvicted == Elems(SubSeq(checkpoints, 1, Len(checkpoints) - Len(checkpoints')))

\* C24: a rotation pass always runs to completion over all evicted files: a failed
\* local delete of one file or a failed callback for one file is not raised to the
\* caller and does not keep the delete and the callback from being tried for the
\* remaining evicted files (after a failed callback no evicted file whose removal
\* is possible is left on disk); the history is trimmed in every case
C24_RotationRunsToCompletion ==
    [][LocalRotationPass =>
         /\ lastErr' = NoError
         /\ lastErr' = Raised("rotate_fn") => LocalEvicted \cap disk' = {}]_vars

\* C25: after construction of either monitor the history holds at most the one
\* entry loaded from the status file: it is empty when current_checkpoint is empty
\* and is [current_checkpoint], one occurrence, otherwise
C25_HistoryAfterConstruction ==
    (phase = "ready" /\ lastOp = "construct") =>
        checkpoints = IF current_checkpoint = NoPath THEN <<>> ELSE <<current_checkpoint>>

\* a remote-mirrored monitor with rotation is at rest after a call: no call is
\* running and every submitted task has ended
MirrorAtRest ==
    /\ kind = "ftp" /\ phase = "ready" /\ rotate_number >= 1
    /\ nwrites > 0
    /\ fg.pc = "idle" /\ PoolQuiet

\* C26: the remote mirror is eventually consistent with the local history: for any
\* sequence of on_checkpoint_written calls, once every submitted background task
\* has ended and no transport error occurred, the checkpoint blobs on the server
\* are the files of the local history
C26_MirrorConsistent == MirrorAtRest => remote.blobs = Elems(checkpoints)

\* the step is the first attempt of a download, and it sends its retrieve command
FirstRetrieve == RetrieveSent /\ xfer.made = 0

\* a download is under way or has ended
Downloading == kind = "task" /\ xfer.task = "download" /\ xfer.pc # "none"

\* C27: download_task does not use the bytes that are in the local target when it
\* is called: it empties the file, its first retrieve is a plain one from offset 0
\* whatever was there, no old byte stays in the file, and a call that reports
\* success has retrieved the file in that call, also when the target already had
\* the full size
C27_TargetRewritten ==
    /\ [][FirstRetrieve => (xfer'.rest = 0 /\ xfer'.cmd = "RETR")]_vars
    /\ [](Downloading =>
            /\ \A i \in 1..Len(xfer.dst) : xfer.dst[i] # 0
            /\ (xfer.pc = "done" /\ xfer.ret = "ok") => xfer.cmd # "none")

\* C27 as stated: the first retrieve starts at the length the target had when the
\* task was called, and a target of the full size is not retrieved at all
C27_AsStated ==
    /\ [][FirstRetrieve => xfer'.rest = Len(xfer.old)]_vars
    /\ []((Downloading /\ Len(xfer.old) = xfer.size) => xfer.made = 0)

\* a download over a target that already had the full size has retrieved the whole
\* file from offset 0 in one attempt
C27_Witness ==
    /\ TaskEnded /\ xfer.task = "download" /\ xfer.ret = "ok"
    /\ xfer.size > 0 /\ Len(xfer.old) = xfer.size
    /\ xfer.made = 1 /\ xfer.cmd = "RETR" /\ xfer.rest = 0
    /\ xfer.dst = SourceBytes(xfer.size)

C29_ResetLeavesBlankParams ==
    (kind = "local" /\ phase = "ready" /\ AfterReset) =>
        /\ current_params = [checkpoint |-> NoPath]
        /\ statefile = TextFile([checkpoint |-> NoPath])

\* C30: whenever upload_task reports success the remote file equals the local file
\* byte for byte, whatever was on the server under that name before the call and
\* whichever earlier attempts failed
C30_UploadedEqualsLocal ==
    (TaskEnded /\ xfer.task = "upload" /\ xfer.ret = "ok") =>
        xfer.dst = SourceBytes(xfer.size)

\* the folder the constructor started in held a well-formed status file that names
\* a checkpoint file of that folder
LocalStateValid ==
    /\ boot.sf.exists /\ boot.sf.wellformed
    /\ "checkpoint" \in DOMAIN JsonLoad(boot.sf.pairs)
    /\ JsonLoad(boot.sf.pairs)["checkpoint"] \in boot.files

\* the constructor has returned after the download of the remote status file used
\* up its attempts
StatusDownloadLost ==
    /\ FtpConstructed /\ boot.connected
    /\ boot.rem.dir /\ boot.rem.status.exists /\ ~boot.ok_status

\* C31: a failed download of the remote status file during construction does not
\* destroy local state: when the folder held a valid status file and its
\* checkpoint, the status file is unchanged and the monitor reports that
\* checkpoint as current
C31_BootstrapKeepsLocalState ==
    (StatusDownloadLost /\ LocalStateValid) =>
        /\ statefile = boot.sf
        /\ current_checkpoint = JsonLoad(boot.sf.pairs)["checkpoint"]

====
